---- MODULE Spec2Model ----
(***************************************************************************)
(* Iterative magnitude pruning (plutils/prune/imp_pruner.py).              *)
(*                                                                         *)
(* Numbers.  A pruning rate or a target sparsity is the rational           *)
(* n / RateDen, held as its numerator n.  RateDen is a power of two, so    *)
(* every rate of the model is an exact binary float and int(N * rate) of   *)
(* the code is the exact floor computed here.  A block score               *)
(* sum(|w|) / (rows * cols) is the rational [num, den]; scores are         *)
(* compared by cross multiplication.                                       *)
(*                                                                         *)
(* Tensors.  A weight or a mask of a (linear) layer is a matrix: a         *)
(* sequence of rows, each a sequence of entries.  Layers are named 1..n in *)
(* the order the dict self.target_layers iterates.                         *)
(***************************************************************************)
EXTENDS Integers, Sequences, FiniteSets, TLC

VARIABLES
    target_layers,      \* self.target_layers: name -> [weight, mask]
    rewind_state,       \* self.rewind_state: name -> [weight, mask]
    shares_storage,     \* name -> the live weight aliases the snapshot's tensor
    block_policy,       \* self.block_policy: name -> <<rows, cols>>
    global_prune,       \* self.global_prune
    model_sparsity,     \* self.model_sparsity (numerator over RateDen)
    pruning_interval,   \* self.pruning_interval
    sparsity_step,      \* self.sparsity_step
    total_param,        \* self.total_param
    finetune_epochs,    \* usr_config.pruner.init_args.finetune_epochs (patience)
    pc,                 \* position of the driver
    pretrain_epoch,     \* epochs of phase 1 that have run
    current_epoch,      \* trainer.current_epoch of phase 2
    batch_idx,          \* training batches run in the current epoch
    best_score,         \* EarlyStopping.best_score (zeroed mask entries; -1 is -inf)
    wait_count,         \* EarlyStopping.wait_count
    error,              \* the exception that ended the run, "none" otherwise
    stop_reason,        \* why trainer.fit of phase 2 returned, "none" before
    last_rate,          \* the rate of the last cut_weights call, -1 before the first
    repeated,           \* the last cut_weights call had the rate of the call before it
    test_runs           \* number of trainer.test passes

cfgvars == <<block_policy, global_prune, model_sparsity, pruning_interval,
             sparsity_step, total_param, finetune_epochs>>
esvars == <<best_score, wait_count>>
vars == <<target_layers, rewind_state, shares_storage, cfgvars, pc, pretrain_epoch,
          current_epoch, batch_idx, esvars, error, stop_reason, last_rate, repeated,
          test_runs>>

----------------------------------------------------------------------------
(* Bounds of the model *)

RateDen == 4            \* rates are multiples of 1 / RateDen
MaxW == 3               \* largest weight entry
MaxTrainW == 2          \* largest weight entry training reaches
MaxEpoch == 4           \* last epoch of phase 2 the model follows
NumBatches == 1         \* training batches per epoch
PretrainEpochs == 1     \* usr_config.trainer.epochs

\* program constants
max_epochs == 1000000
MarginDen == 10000      \* sparsity_margin = 1 / MarginDen (1e-4)

----------------------------------------------------------------------------
(* Tensor helpers *)

Abs(x) == IF x < 0 THEN -x ELSE x

RECURSIVE SeqSum(_)
SeqSum(s) == IF s = <<>> THEN 0 ELSE s[1] + SeqSum(Tail(s))

\* the sequence f[1], ..., f[n], every entry computed once
ToSeq(f, n) == f \o <<>>

NumRows(m) == Len(m)
NumCols(m) == Len(m[1])
numel(m) == NumRows(m) * NumCols(m)

Matrices(R, C, Vals) == [1..R -> [1..C -> Vals]]

\* the R x C matrix with entries f[i][j], every entry computed once
ToMatrix(f, R, C) == [i \in 1..R |-> f[i] \o <<>>] \o <<>>

ones_like(m) ==
    ToMatrix([i \in 1..NumRows(m) |-> [j \in 1..NumCols(m) |-> 1]], NumRows(m), NumCols(m))

ZeroEntries(m) ==
    Cardinality({ij \in (1..NumRows(m)) \X (1..NumCols(m)) : m[ij[1]][ij[2]] = 0})

MatrixSum(m) == SeqSum(ToSeq([i \in 1..NumRows(m) |-> SeqSum(m[i])], NumRows(m)))

\* torch.sqrt(torch.square(w)), entry by entry
SqrtSquare(m) ==
    ToMatrix([i \in 1..NumRows(m) |-> [j \in 1..NumCols(m) |-> Abs(m[i][j])]],
             NumRows(m), NumCols(m))

\* plutils.utils.matrix_to_blocks: block k = rb * n_block_cols + cb (row major)
matrix_to_blocks(w, br, bc) ==
    LET nbr == NumRows(w) \div br
        nbc == NumCols(w) \div bc
        blocks == ToSeq([k \in 1..(nbr * nbc) |->
                    ToMatrix([i \in 1..br |-> [j \in 1..bc |->
                        w[((k - 1) \div nbc) * br + i][((k - 1) % nbc) * bc + j]]],
                        br, bc)], nbr * nbc)
    IN <<blocks, nbr, nbc>>

\* plutils.utils.blocks_to_matrix: the inverse of matrix_to_blocks
blocks_to_matrix(blocks, nbr, nbc, br, bc) ==
    ToMatrix([r \in 1..(nbr * br) |-> [c \in 1..(nbc * bc) |->
                blocks[((r - 1) \div br) * nbc + ((c - 1) \div bc) + 1]
                      [((r - 1) % br) + 1][((c - 1) % bc) + 1]]],
             nbr * br, nbc * bc)

\* plutils.prune.utils.get_block_dim
get_block_dim(policy, name) == policy[name]

----------------------------------------------------------------------------
(* Block scores *)

\* torch.sum(block_score_sep, dim=(-2, -1)) / (blockdim[0] * blockdim[1])
block_score_of(block_sep, blockdim) ==
    [num |-> MatrixSum(block_sep), den |-> blockdim[1] * blockdim[2]]

ScoreLT(a, b) == a.num * b.den < b.num * a.den
ScoreGE_strict(a, b) == ScoreLT(b, a)
ScoreGE(a, b) == ~ScoreLT(a, b)
ScoreEQ(a, b) == a.num * b.den = b.num * a.den

LayerScores_masked(module, blockdim) ==
    LET effective == [i \in 1..NumRows(module.weight) |->
                        [j \in 1..NumCols(module.weight) |->
                            module.weight[i][j] * module.mask[i][j]]]
        weight_blocks == matrix_to_blocks(effective, blockdim[1], blockdim[2])[1]
    IN ToSeq([k \in 1..Len(weight_blocks) |->
                block_score_of(SqrtSquare(weight_blocks[k]), blockdim)],
             Len(weight_blocks))

\* the scores of the blocks of one layer, in block order
LayerScores(module, blockdim) ==
    LET weight_blocks == matrix_to_blocks(module.weight, blockdim[1], blockdim[2])[1]
    IN ToSeq([k \in 1..Len(weight_blocks) |->
                block_score_of(SqrtSquare(weight_blocks[k]), blockdim)],
             Len(weight_blocks))

\* torch.sort (ascending), as the permutation sorted_indices: entry i of the
\* input goes to position SortedPosition(scores, i).  Equal scores keep their
\* order; the order of ties does not change the threshold, since tied entries
\* are adjacent and carry the same score.
SortedPosition(scores, i) ==
    1 + Cardinality({j \in 1..Len(scores) :
            \/ ScoreLT(scores[j], scores[i])
            \/ ScoreEQ(scores[j], scores[i]) /\ j < i})

torch_sort_indices(scores) ==
    ToSeq([p \in 1..Len(scores) |->
              CHOOSE i \in 1..Len(scores) : SortedPosition(scores, i) = p],
          Len(scores))

torch_sort_descending(scores) ==
    LET idx == torch_sort_indices(scores)
    IN ToSeq([i \in 1..Len(scores) |-> scores[idx[Len(scores) + 1 - i]]], Len(scores))

torch_sort(scores) ==
    LET idx == torch_sort_indices(scores)
    IN ToSeq([i \in 1..Len(scores) |-> scores[idx[i]]], Len(scores))

MaskFromScores_first_entry(scores, threshold, nbr, nbc, blockdim) ==
    LET block_mask == ToSeq([k \in 1..Len(scores) |->
                        ToMatrix([i \in 1..blockdim[1] |-> [j \in 1..blockdim[2] |->
                            IF i = 1 /\ j = 1 /\ ScoreLT(scores[k], threshold)
                            THEN 0 ELSE 1]],
                            blockdim[1], blockdim[2])], Len(scores))
    IN blocks_to_matrix(block_mask, nbr, nbc, blockdim[1], blockdim[2])

\* block_mask.unsqueeze(-1).unsqueeze(-1) * ones_like(block_score_sep), reassembled
MaskFromScores(scores, threshold, nbr, nbc, blockdim) ==
    LET block_mask == ToSeq([k \in 1..Len(scores) |->
                        ToMatrix([i \in 1..blockdim[1] |-> [j \in 1..blockdim[2] |->
                            IF ScoreGE(scores[k], threshold) THEN 1 ELSE 0]],
                            blockdim[1], blockdim[2])], Len(scores))
    IN blocks_to_matrix(block_mask, nbr, nbc, blockdim[1], blockdim[2])

----------------------------------------------------------------------------
(* Mask allocators.  Each returns [error, target_layers]: the exception the *)
(* call raised ("none" when it returned) and the registry it left behind.   *)

Layers(tl) == DOMAIN tl

num_blocks_rm_plus_one(num_blocks, pruning_rate) ==
    (num_blocks * pruning_rate) \div RateDen + 1

\* int(num_blocks_row * num_blocks_col * pruning_rate)
num_blocks_rm_of(num_blocks, pruning_rate) == (num_blocks * pruning_rate) \div RateDen

\* one iteration of the loop of _local_prune
LocalPruneLayer(module, blockdim, pruning_rate) ==
    LET parts == matrix_to_blocks(module.weight, blockdim[1], blockdim[2])
        num_blocks_row == parts[2]
        num_blocks_col == parts[3]
        block_score == LayerScores(module, blockdim)
        num_blocks_rm == num_blocks_rm_of(num_blocks_row * num_blocks_col, pruning_rate)
        sorted_scores == torch_sort(block_score)
    IN IF num_blocks_rm >= Len(sorted_scores)
       THEN [error |-> "IndexError", module |-> module]
       ELSE LET threshold == sorted_scores[num_blocks_rm + 1]
            IN [error |-> "none",
                module |-> [module EXCEPT !.mask =
                    MaskFromScores(block_score, threshold, num_blocks_row,
                                   num_blocks_col, blockdim)]]

RECURSIVE LocalPruneFrom(_, _, _, _)
LocalPruneFrom(tl, policy, name, pruning_rate) ==
    IF name > Len(tl) THEN [error |-> "none", target_layers |-> tl]
    ELSE LET r == LocalPruneLayer(tl[name], get_block_dim(policy, name), pruning_rate)
         IN IF r.error # "none" THEN [error |-> r.error, target_layers |-> tl]
            ELSE LocalPruneFrom([tl EXCEPT ![name] = r.module], policy, name + 1,
                                pruning_rate)

_local_prune(tl, policy, pruning_rate) == LocalPruneFrom(tl, policy, 1, pruning_rate)

\* torch.cat(block_scores) and torch.cat(block_dim_map) of _global_prune
RECURSIVE PooledScores(_, _, _)
PooledScores(tl, policy, name) ==
    IF name > Len(tl) THEN <<>>
    ELSE LayerScores(tl[name], get_block_dim(policy, name))
            \o PooledScores(tl, policy, name + 1)

RECURSIVE PooledDims(_, _, _)
PooledDims(tl, policy, name) ==
    IF name > Len(tl) THEN <<>>
    ELSE LET blockdim == get_block_dim(policy, name)
             n == (NumRows(tl[name].weight) \div blockdim[1])
                    * (NumCols(tl[name].weight) \div blockdim[2])
         IN ToSeq([k \in 1..n |-> blockdim[1] * blockdim[2]], n)
                \o PooledDims(tl, policy, name + 1)

\* torch.cumsum(block_dim_map[sorted_indices], dim=0)
CumSum(dims, idx) ==
    ToSeq([i \in 1..Len(idx) |-> SeqSum(ToSeq([j \in 1..i |-> dims[idx[j]]], i))], Len(idx))

CutoffPositions_inclusive(param_cum, num_params_to_rm) ==
    {i \in 1..Len(param_cum) : num_params_to_rm <= param_cum[i]}

\* the positions torch.where((num_params_to_rm < param_cum).float() == 1)[0] returns
CutoffPositions(param_cum, num_params_to_rm) ==
    {i \in 1..Len(param_cum) : num_params_to_rm < param_cum[i]}

Min(S) == CHOOSE x \in S : \A y \in S : x <= y

\* the second loop of _global_prune: every layer is masked against one threshold
GlobalMasks(tl, policy, threshold) ==
    ToSeq([name \in Layers(tl) |->
        LET blockdim == get_block_dim(policy, name)
            parts == matrix_to_blocks(tl[name].weight, blockdim[1], blockdim[2])
        IN [tl[name] EXCEPT !.mask =
              MaskFromScores(LayerScores(tl[name], blockdim), threshold,
                             parts[2], parts[3], blockdim)]], Len(tl))

_global_prune(tl, policy, total, pruning_rate) ==
    LET block_scores == PooledScores(tl, policy, 1)
        block_dim_map == PooledDims(tl, policy, 1)
        num_params_to_rm == (total * pruning_rate) \div RateDen
        sorted_indices == torch_sort_indices(block_scores)
        param_cum == CumSum(block_dim_map, sorted_indices)
        where == CutoffPositions(param_cum, num_params_to_rm)
    IN IF where = {} THEN [error |-> "IndexError", target_layers |-> tl]
       ELSE [error |-> "none",
             target_layers |-> GlobalMasks(tl, policy, block_scores[sorted_indices[Min(where)]])]

cut_weights(tl, policy, is_global, total, pruning_rate) ==
    IF is_global THEN _global_prune(tl, policy, total, pruning_rate)
    ELSE _local_prune(tl, policy, pruning_rate)

----------------------------------------------------------------------------
(* Construction: ImpModule.__init__ *)

\* plutils.analysis.get_num_params: every parameter of the model, the weights
\* of the target layers and whatever else the model holds (biases, layers
\* find_targets left out)
RECURSIVE NumTargetParams(_, _)
NumTargetParams(tl, name) ==
    IF name > Len(tl) THEN 0 ELSE numel(tl[name].weight) + NumTargetParams(tl, name + 1)

get_num_params(tl, other_params) == NumTargetParams(tl, 1) + other_params

\* register_mask: every target layer becomes a masked layer with a mask of ones
register_mask(weights) ==
    ToSeq([name \in DOMAIN weights |->
        [weight |-> weights[name], mask |-> ones_like(weights[name])]], Len(weights))

\* copy.deepcopy(self.target_layers): fresh tensors, equal values
deepcopy(tl) == tl

NoSharing(tl) == [name \in Layers(tl) |-> FALSE]

Construct(weights, policy, is_global, s_f, interval, step, patience, other_params) ==
    /\ target_layers = register_mask(weights)
    /\ rewind_state = deepcopy(register_mask(weights))
    /\ shares_storage = NoSharing(weights)
    /\ block_policy = policy
    /\ global_prune = is_global
    /\ model_sparsity = s_f
    /\ pruning_interval = interval
    /\ sparsity_step = step
    /\ finetune_epochs = patience
    /\ total_param = get_num_params(register_mask(weights), other_params)
    /\ pretrain_epoch = 0
    /\ current_epoch = 0
    /\ batch_idx = 0
    /\ best_score = -1
    /\ wait_count = 0
    /\ error = "none"
    /\ stop_reason = "none"
    /\ last_rate = -1
    /\ repeated = FALSE
    /\ test_runs = 0

----------------------------------------------------------------------------
(* The allocator on its own: any weights, any rate *)

\* Layer 1 is 2 x 2 in blocks of 1 x 1 (four blocks of one entry), layer 2 is
\* 2 x 1 in one block of 2 x 1.  OtherParams are the parameters of the model
\* that are in no target weight (biases, layers find_targets left out).
AllocPolicy == <<(<<1, 1>>), (<<2, 1>>)>>
AllocWeights ==
    {<<a, b>> : a \in Matrices(2, 2, 0..MaxW), b \in Matrices(2, 1, {-1, 0})}
OtherParams == {0, 2}

InitAlloc ==
    /\ pc = "alloc"
    /\ \E weights \in AllocWeights, is_global \in BOOLEAN :
         \E other_params \in (IF is_global THEN OtherParams ELSE {0}) :
            Construct(weights, AllocPolicy, is_global, RateDen, 1, 1, 1, other_params)

CutWeightsCall(pruning_rate) ==
    /\ pc = "alloc"
    /\ LET r == cut_weights(target_layers, block_policy, global_prune, total_param,
                            pruning_rate)
       IN /\ target_layers' = r.target_layers
          /\ error' = r.error
    /\ last_rate' = pruning_rate
    /\ repeated' = (pruning_rate = last_rate)
    /\ UNCHANGED <<rewind_state, shares_storage, cfgvars, pc, pretrain_epoch,
                   current_epoch, batch_idx, esvars, stop_reason, test_runs>>

NextAlloc == \E pruning_rate \in 0..(RateDen - 1) : CutWeightsCall(pruning_rate)

SpecAlloc == InitAlloc /\ [][NextAlloc]_vars

----------------------------------------------------------------------------
(* The pruning run: ImpPruner.prune drives both phases *)

IsPruningEpoch_always(epoch, interval) == TRUE

\* current_epoch % self.pruning_interval == 0
IsPruningEpoch(epoch, interval) == epoch % interval = 0

\* plutils.prune.utils.exp_pruning_schedule: 0 at epoch 0, s_f from event index
\* sparsity_step on, non-decreasing in between (here the ramp is linear, rounded
\* down to a multiple of 1 / RateDen)
exp_pruning_schedule(epoch, s_f, interval, step) ==
    LET k == epoch \div interval
    IN IF k >= step THEN s_f ELSE (s_f * k) \div step

\* plutils.analysis.get_sparsity(...)['sparsity']: zeroed mask entries over mask entries
RECURSIVE ZeroedFrom(_, _)
ZeroedFrom(tl, name) ==
    IF name > Len(tl) THEN 0 ELSE ZeroEntries(tl[name].mask) + ZeroedFrom(tl, name + 1)

get_sparsity(tl) == [zeroed |-> ZeroedFrom(tl, 1), entries |-> NumTargetParams(tl, 1)]

\* EarlyStopping: monitor_op(current, stopping_threshold), torch.gt for mode='max',
\* with stopping_threshold = model_sparsity - sparsity_margin
ReachedThreshold(sparsity) ==
    sparsity.zeroed * RateDen * MarginDen
        > (model_sparsity * MarginDen - RateDen) * sparsity.entries

\* one optimizer step: entry (i, j) of one weight moves by d; the update is in
\* place, so a snapshot tensor that shares the storage moves with it
OptimizerStep(name, i, j, d) ==
    /\ target_layers' = [target_layers EXCEPT ![name].weight[i][j] = @ + d]
    /\ rewind_state' = IF shares_storage[name]
                       THEN [rewind_state EXCEPT ![name].weight[i][j] = @ + d]
                       ELSE rewind_state

\* the entries a step can move: the gradient of a masked entry is zero
Trainable ==
    {<<name, i, j, d>> \in Layers(target_layers) \X (1..1) \X (1..2) \X {-1, 1} :
        /\ i \in 1..NumRows(target_layers[name].weight)
        /\ j \in 1..NumCols(target_layers[name].weight)
        /\ target_layers[name].mask[i][j] = 1
        /\ target_layers[name].weight[i][j] + d \in 0..MaxTrainW}

LifeWeights == {<<a, (<< <<1, 1>> >>)>> : a \in {<< <<1, 2>> >>, << <<2, 2>> >>}}
LifePolicy == <<(<<1, 1>>), (<<1, 2>>)>>

Init ==
    /\ pc = "pretrain"
    /\ \E weights \in LifeWeights, is_global \in BOOLEAN,
          s_f \in {RateDen \div 2, RateDen - 1, RateDen},
          interval \in {1, 2}, step \in {1, 2}, patience \in {1, 3} :
         \E other_params \in (IF is_global THEN OtherParams ELSE {0}) :
            Construct(weights, LifePolicy, is_global, s_f, interval, step, patience,
                      other_params)

\* train_model: one epoch of run_standard_training on the dense model
PretrainEpoch ==
    /\ pc = "pretrain"
    /\ pretrain_epoch < PretrainEpochs
    /\ \E t \in Trainable : OptimizerStep(t[1], t[2], t[3], t[4])
    /\ pretrain_epoch' = pretrain_epoch + 1
    /\ UNCHANGED <<shares_storage, cfgvars, pc, current_epoch, batch_idx, esvars, error,
                   stop_reason, last_rate, repeated, test_runs>>

StartSparsitySchedule_early ==
    /\ pc = "pretrain"
    /\ pc' = "epoch_start"
    /\ UNCHANGED <<target_layers, rewind_state, shares_storage, cfgvars, pretrain_epoch,
                   current_epoch, batch_idx, esvars, error, stop_reason, last_rate,
                   repeated, test_runs>>

\* prune: train_model has returned, run_sparsity_schedule calls trainer.fit
StartSparsitySchedule ==
    /\ pc = "pretrain"
    /\ pretrain_epoch = PretrainEpochs
    /\ pc' = "epoch_start"
    /\ UNCHANGED <<target_layers, rewind_state, shares_storage, cfgvars, pretrain_epoch,
                   current_epoch, batch_idx, esvars, error, stop_reason, last_rate,
                   repeated, test_runs>>

current_pruning_rate_next_event(epoch) ==
    exp_pruning_schedule(epoch + pruning_interval, model_sparsity, pruning_interval,
                         sparsity_step)

\* self.pruning_rate_func(current_epoch, s_f=self.model_sparsity,
\*     pruning_interval=self.pruning_interval, sparsity_step=self.sparsity_step)
current_pruning_rate(epoch) ==
    exp_pruning_schedule(epoch, model_sparsity, pruning_interval, sparsity_step)

on_epoch_start ==
    /\ pc = "epoch_start"
    /\ IF IsPruningEpoch(current_epoch, pruning_interval)
       THEN LET pruning_rate == current_pruning_rate(current_epoch)
                r == cut_weights(target_layers, block_policy, global_prune,
                                 total_param, pruning_rate)
            IN /\ target_layers' = r.target_layers
               /\ error' = r.error
               /\ pc' = IF r.error = "none" THEN "training" ELSE "failed"
               /\ last_rate' = pruning_rate
               /\ repeated' = (pruning_rate = last_rate)
       ELSE /\ pc' = "training"
            /\ UNCHANGED <<target_layers, error, last_rate, repeated>>
    /\ UNCHANGED <<rewind_state, shares_storage, cfgvars, pretrain_epoch, current_epoch,
                   batch_idx, esvars, stop_reason, test_runs>>

\* training_step and the optimizer step the driver takes on its loss
training_step ==
    /\ pc = "training"
    /\ batch_idx < NumBatches
    /\ \E t \in Trainable : OptimizerStep(t[1], t[2], t[3], t[4])
    /\ batch_idx' = batch_idx + 1
    /\ UNCHANGED <<shares_storage, cfgvars, pc, pretrain_epoch, current_epoch, esvars,
                   error, stop_reason, last_rate, repeated, test_runs>>

on_epoch_end ==
    /\ pc = "training"
    /\ batch_idx = NumBatches
    /\ IF IsPruningEpoch(current_epoch, pruning_interval)
       THEN /\ rewind_state' = deepcopy(target_layers)
            /\ shares_storage' = NoSharing(target_layers)
       ELSE UNCHANGED <<rewind_state, shares_storage>>
    /\ pc' = "early_stopping"
    /\ UNCHANGED <<target_layers, cfgvars, pretrain_epoch, current_epoch, batch_idx,
                   esvars, error, stop_reason, last_rate, repeated, test_runs>>

rewind_whole_layer(tl, snapshot) == snapshot

\* rewind: self.target_layers[n].weight.data = self.rewind_state[n].weight.data
rewind(tl, snapshot) ==
    [name \in Layers(tl) |-> [tl[name] EXCEPT !.weight = snapshot[name].weight]]

Rewind ==
    /\ pc \in {"epoch_start", "training"}
    /\ target_layers' = rewind(target_layers, rewind_state)
    /\ shares_storage' = [name \in Layers(target_layers) |-> TRUE]
    /\ UNCHANGED <<rewind_state, cfgvars, pc, pretrain_epoch, current_epoch, batch_idx,
                   esvars, error, stop_reason, last_rate, repeated, test_runs>>

\* EarlyStopping(monitor='sparsity', mode='max', patience=finetune_epochs,
\* stopping_threshold=model_sparsity - sparsity_margin), then the driver's own
\* max_epochs test
EarlyStoppingCheck ==
    /\ pc = "early_stopping"
    /\ LET sparsity == get_sparsity(target_layers)
           reached == ReachedThreshold(sparsity)
           improved == sparsity.zeroed > best_score
           waited == IF improved THEN 0 ELSE wait_count + 1
           should_stop == reached \/ (~improved /\ waited >= finetune_epochs)
       IN /\ best_score' = IF ~reached /\ improved THEN sparsity.zeroed ELSE best_score
          /\ wait_count' = IF reached THEN wait_count ELSE waited
          /\ IF should_stop
             THEN /\ stop_reason' = IF reached THEN "threshold" ELSE "patience"
                  /\ pc' = "test"
                  /\ UNCHANGED <<current_epoch, batch_idx>>
             ELSE IF current_epoch + 1 >= max_epochs
             THEN /\ stop_reason' = "max_epochs"
                  /\ pc' = "test"
                  /\ UNCHANGED <<current_epoch, batch_idx>>
             ELSE /\ current_epoch < MaxEpoch
                  /\ current_epoch' = current_epoch + 1
                  /\ batch_idx' = 0
                  /\ pc' = "epoch_start"
                  /\ UNCHANGED stop_reason
    /\ UNCHANGED <<target_layers, rewind_state, shares_storage, cfgvars, pretrain_epoch,
                   error, last_rate, repeated, test_runs>>

\* trainer.test(model=self.imp_module, ...)
TestPass ==
    /\ pc = "test"
    /\ test_runs' = test_runs + 1
    /\ pc' = "done"
    /\ UNCHANGED <<target_layers, rewind_state, shares_storage, cfgvars, pretrain_epoch,
                   current_epoch, batch_idx, esvars, error, stop_reason, last_rate,
                   repeated>>

Next ==
    \/ PretrainEpoch
    \/ StartSparsitySchedule
    \/ on_epoch_start
    \/ training_step
    \/ on_epoch_end
    \/ Rewind
    \/ EarlyStoppingCheck
    \/ TestPass

Spec == Init /\ [][Next]_vars

----------------------------------------------------------------------------
(* What a call left behind, read off the registry *)

Weights(tl) == [name \in Layers(tl) |-> tl[name].weight]
Masks(tl) == [name \in Layers(tl) |-> tl[name].mask]

BlockAll(block, v) ==
    \A i \in 1..NumRows(block) : \A j \in 1..NumCols(block) : block[i][j] = v

MaskBlocks(name) ==
    matrix_to_blocks(target_layers[name].mask, block_policy[name][1],
                     block_policy[name][2])[1]

Scores(name) == LayerScores(target_layers[name], block_policy[name])

RemovedBlocks(name) ==
    Cardinality({k \in 1..Len(MaskBlocks(name)) : BlockAll(MaskBlocks(name)[k], 0)})

RECURSIVE RemovedParamsFrom(_)
RemovedParamsFrom(name) ==
    IF name > Len(target_layers) THEN 0
    ELSE ZeroEntries(target_layers[name].mask) + RemovedParamsFrom(name + 1)

RemovedParams == RemovedParamsFrom(1)

PairwiseDistinct(scores) ==
    \A a, b \in 1..Len(scores) : a # b => ~ScoreEQ(scores[a], scores[b])

\* t is the k-th smallest of scores, counting from 0
IsKthSmallest(scores, k, t) ==
    /\ Cardinality({j \in 1..Len(scores) : ScoreLT(scores[j], t)}) <= k
    /\ Cardinality({j \in 1..Len(scores) : ~ScoreLT(t, scores[j])}) > k

LocalCallReturned ==
    pc = "alloc" /\ ~global_prune /\ last_rate \in 0..(RateDen - 1)

GlobalCallReturned ==
    pc = "alloc" /\ global_prune /\ last_rate \in 0..(RateDen - 1) /\ error = "none"

----------------------------------------------------------------------------
(* Claims about the allocators (SpecAlloc) *)

LayerMaskedAtKth(name) ==
    LET scores == Scores(name)
        N == Len(scores)
        k == (N * last_rate) \div RateDen
        blocks == MaskBlocks(name)
    IN /\ \E t \in 1..N : IsKthSmallest(scores, k, scores[t])
       /\ \A t \in 1..N : IsKthSmallest(scores, k, scores[t]) =>
            \A b \in 1..N :
                IF ScoreLT(scores[b], scores[t]) THEN BlockAll(blocks[b], 0)
                ELSE BlockAll(blocks[b], 1)

DistinctlyLowest(scores, b0) ==
    \A b \in 1..Len(scores) : b # b0 => ScoreLT(scores[b0], scores[b])

ScenarioA(name) ==
    LET scores == Scores(name)
        blocks == MaskBlocks(name)
    IN (Len(scores) = 4 /\ 4 * last_rate = RateDen) =>
          \A b0 \in 1..4 : DistinctlyLowest(scores, b0) =>
              \A b \in 1..4 : BlockAll(blocks[b], IF b = b0 THEN 0 ELSE 1)

\* C1: after _local_prune with a rate in [0,1) every layer, on its own, is masked
\* against the k-th smallest of its block scores, k = floor(N * rate): a block is
\* all ones iff its score is >= that threshold and all zeros otherwise; with four
\* blocks, rate 1/4 and one distinctly lowest block, exactly that block is zeroed.
C1_LocalResult ==
    LocalCallReturned =>
        /\ error = "none"
        /\ \A name \in Layers(target_layers) : LayerMaskedAtKth(name) /\ ScenarioA(name)

C1_Witness ==
    /\ LocalCallReturned
    /\ 4 * last_rate = RateDen
    /\ \E b0 \in 1..4 :
          /\ DistinctlyLowest(Scores(1), b0)
          /\ \A b \in 1..4 : BlockAll(MaskBlocks(1)[b], IF b = b0 THEN 0 ELSE 1)

\* C2 as stated: whatever the scores (ties included), the number of blocks the
\* local allocator removes from a layer is within one block of rate * N.
C2_LocalWithinOneBlock ==
    LocalCallReturned =>
        \A name \in Layers(target_layers) :
            LET N == Len(Scores(name))
            IN /\ RemovedBlocks(name) * RateDen - last_rate * N <= RateDen
               /\ last_rate * N - RemovedBlocks(name) * RateDen <= RateDen

\* C2 as amended: the local allocator never removes more than rate * N blocks of
\* a layer, and it is within one block of rate * N when the layer's block scores
\* are pairwise distinct (blocks tied with the threshold survive).
C2_LocalAccuracy ==
    LocalCallReturned =>
        \A name \in Layers(target_layers) :
            LET N == Len(Scores(name))
            IN /\ RemovedBlocks(name) * RateDen <= last_rate * N
               /\ PairwiseDistinct(Scores(name)) =>
                     last_rate * N - RemovedBlocks(name) * RateDen < RateDen

C2_Witness ==
    /\ LocalCallReturned
    /\ PairwiseDistinct(Scores(1))
    /\ RemovedBlocks(1) = 3

MaxBlockParams ==
    LET sizes == {block_policy[name][1] * block_policy[name][2] :
                    name \in Layers(target_layers)}
    IN CHOOSE x \in sizes : \A y \in sizes : y <= x

C9_Idempotent ==
    [][pc = "alloc" =>
        /\ last_rate' = last_rate => target_layers' = target_layers
        /\ error' = "none" =>
              target_layers' =
                cut_weights(register_mask(Weights(target_layers)), block_policy,
                            global_prune, total_param, last_rate').target_layers]_vars

C9_Witness ==
    /\ pc = "alloc"
    /\ repeated
    /\ error = "none"
    /\ \E name \in Layers(target_layers) : RemovedBlocks(name) > 0

----------------------------------------------------------------------------
(* Claims about the pruning run (Spec) *)

AllOnes(tl) == \A name \in Layers(tl) : ZeroEntries(tl[name].mask) = 0

SomeBlockPruned == \E name \in Layers(target_layers) : RemovedBlocks(name) > 0

\* C4: the weights held by the rewind snapshot change only when on_epoch_end of
\* a pruning epoch replaces the snapshot; no change of a live weight reaches them.
C4_SnapshotIndependent ==
    [][Weights(rewind_state)' # Weights(rewind_state) =>
          /\ pc = "training" /\ pc' = "early_stopping"
          /\ current_epoch % pruning_interval = 0]_vars

\* C5: a rewind() that takes the live weights off their own storage leaves every
\* live weight equal to the weight in the rewind snapshot, and changes neither a
\* mask nor the snapshot.
C5_RewindRestores ==
    [][(\E name \in Layers(target_layers) :
            ~shares_storage[name] /\ shares_storage'[name]) =>
          /\ Weights(target_layers)' = Weights(rewind_state)
          /\ Masks(target_layers)' = Masks(target_layers)
          /\ rewind_state' = rewind_state]_vars

C5_Witness ==
    /\ pc = "training"
    /\ current_epoch % pruning_interval # 0
    /\ batch_idx = NumBatches
    /\ \A name \in Layers(target_layers) : shares_storage[name]
    /\ Weights(target_layers) = Weights(rewind_state)
    /\ SomeBlockPruned

\* C6: a mask changes only in on_epoch_start of an epoch with
\* epoch % pruning_interval = 0, before any training batch of that epoch.
C6_MaskChangesAtPruningStart ==
    [][Masks(target_layers)' # Masks(target_layers) =>
          /\ pc = "epoch_start" /\ pc' = "training"
          /\ current_epoch % pruning_interval = 0
          /\ batch_idx = 0 /\ batch_idx' = 0]_vars

C6_Witness ==
    /\ pc = "training"
    /\ batch_idx = 0
    /\ current_epoch > 0
    /\ current_epoch % pruning_interval = 0
    /\ SomeBlockPruned
    /\ Masks(target_layers) # Masks(rewind_state)

\* C7: phase 2 ends normally (the run goes on to the test pass) only when the
\* monitored sparsity has reached target_sparsity - sparsity_margin.
C7_NormalStopOnlyAtTarget ==
    pc \in {"test", "done"} => ReachedThreshold(get_sparsity(target_layers))

\* C8: an on_epoch_start whose scheduled rate is outside [0,1) ends the run with
\* a configuration error raised by a check of the rate, and changes no mask.
C8_RateValidated ==
    [][(/\ pc = "epoch_start" /\ pc' # "epoch_start"
        /\ current_epoch % pruning_interval = 0
        /\ exp_pruning_schedule(current_epoch, model_sparsity, pruning_interval,
                                sparsity_step) \notin 0..(RateDen - 1)) =>
          /\ pc' = "failed"
          /\ error' = "InvalidPruningRate"
          /\ Masks(target_layers)' = Masks(target_layers)]_vars

\* C10: phase 2 starts only after all PretrainEpochs epochs of phase 1 have run,
\* and every mask is all ones from registration until the first on_epoch_start
\* of phase 2.
C10_PhaseOrder ==
    /\ pc = "pretrain" =>
          AllOnes(target_layers) /\ current_epoch = 0 /\ last_rate = -1
    /\ (pc = "epoch_start" /\ current_epoch = 0) => AllOnes(target_layers)
    /\ pc \notin {"pretrain", "alloc"} => pretrain_epoch = PretrainEpochs

C10_Witness ==
    /\ pc = "epoch_start"
    /\ current_epoch = 0
    /\ pretrain_epoch = PretrainEpochs
    /\ pretrain_epoch > 0
    /\ Weights(target_layers) # Weights(rewind_state)

----------------------------------------------------------------------------
(* The mask invariant *)

SameShape(a, b) ==
    /\ NumRows(a) = NumRows(b)
    /\ \A i \in 1..NumRows(a) : Len(a[i]) = Len(b[i])

Binary(m) == \A i \in 1..NumRows(m) : \A j \in 1..Len(m[i]) : m[i][j] \in {0, 1}

BlockConstant(name) ==
    LET blocks == MaskBlocks(name)
    IN \A k \in 1..Len(blocks) : BlockAll(blocks[k], blocks[k][1][1])

MaskInvariant ==
    \A name \in Layers(target_layers) :
        /\ DOMAIN target_layers[name] = {"weight", "mask"}
        /\ SameShape(target_layers[name].mask, target_layers[name].weight)
        /\ Binary(target_layers[name].mask)
        /\ BlockConstant(name)

\* C11: in every state of the run each target layer holds exactly one mask, of
\* the shape of its weight, with entries 0 or 1 and constant within each block of
\* the layer's block partition; no step changes the set of target layer names.
C11_MaskInvariant ==
    /\ []MaskInvariant
    /\ [][Layers(target_layers)' = Layers(target_layers)]_vars

\* a block of more than one entry is zeroed next to a layer that is partly pruned
C11_Witness ==
    /\ pc = "training"
    /\ current_epoch > 0
    /\ BlockAll(target_layers[2].mask, 0)
    /\ NumCols(target_layers[2].mask) = 2
    /\ ZeroEntries(target_layers[1].mask) = 1

----------------------------------------------------------------------------
(* Configuration errors *)

NoTrainingEpochRan == pretrain_epoch = 0 /\ current_epoch = 0 /\ batch_idx = 0

\* C12: a run that ends with an error over a pruning rate outside [0,1) has
\* executed no training epoch of either phase when the error is raised.
C12_ConfigErrorBeforeTraining ==
    (error # "none" /\ last_rate \notin 0..(RateDen - 1)) => NoTrainingEpochRan

----------------------------------------------------------------------------
(* The rate on_epoch_start hands to cut_weights *)

PruningEpochStarts ==
    /\ pc = "epoch_start" /\ pc' # "epoch_start"
    /\ IsPruningEpoch(current_epoch, pruning_interval)

----------------------------------------------------------------------------
(* The rewind snapshot *)

PruningEpochEnds ==
    /\ pc = "training" /\ pc' = "early_stopping"
    /\ IsPruningEpoch(current_epoch, pruning_interval)

\* the snapshot is captured from the live registry as it is in this step
SnapshotCaptured == rewind_state' = target_layers /\ target_layers' = target_layers

\* self.rewind_state names the same tensors as before: a layer of the snapshot
\* is as it was, or its weight tensor is the one a live layer shares and updates
BindingKept ==
    \A name \in Layers(rewind_state) :
        \/ rewind_state'[name] = rewind_state[name]
        \/ /\ shares_storage[name]
           /\ rewind_state'[name] =
                 [rewind_state[name] EXCEPT !.weight = target_layers'[name].weight]

FirstPruningEpochRunning ==
    current_epoch = 0 /\ pc \in {"pretrain", "epoch_start", "training"}

\* C14: on_epoch_end of an epoch with epoch % pruning_interval = 0 replaces the
\* snapshot by the live registry as it is then; every other step leaves the
\* snapshot binding alone; and until the first pruning epoch ends the snapshot
\* holds the weights it was given at construction.
C14_SnapshotTiming ==
    [][/\ PruningEpochEnds => SnapshotCaptured
       /\ ~PruningEpochEnds => BindingKept
       /\ (FirstPruningEpochRunning /\ ~PruningEpochEnds) =>
              Weights(rewind_state)' = Weights(rewind_state)]_vars

----------------------------------------------------------------------------
(* The threshold lookups of the allocators *)

PooledParams == SeqSum(PooledDims(target_layers, block_policy, 1))

\* C15: after a cut_weights call with a rate in [0,1) the threshold lookup has
\* not failed: for the global strategy floor(total_param * rate) is below the
\* element count of the pooled blocks, for the local strategy floor(N * rate) is
\* below N in every layer, whatever the model holds outside the target weights.
C15_IndexInBounds ==
    (pc = "alloc" /\ last_rate \in 0..(RateDen - 1)) =>
        /\ error = "none"
        /\ global_prune => (total_param * last_rate) \div RateDen < PooledParams
        /\ ~global_prune =>
              \A name \in Layers(target_layers) :
                  (Len(Scores(name)) * last_rate) \div RateDen < Len(Scores(name))

----------------------------------------------------------------------------
(* Masks from one pruning event to the next *)

ZeroedStayZeroed ==
    \A name \in Layers(target_layers) :
        \A i \in 1..NumRows(target_layers[name].mask) :
            \A j \in 1..NumCols(target_layers[name].mask) :
                target_layers[name].mask[i][j] = 0 =>
                    target_layers'[name].mask[i][j] = 0

\* C16: a pruning event whose rate is not below the rate of the event before it
\* leaves at 0 every mask entry that was 0, however the surviving weights have
\* moved in between (masked weights are not updated).
C16_PrunedStayPruned ==
    [][(pc = "epoch_start" /\ pc' = "training" /\ last_rate' >= last_rate) =>
          ZeroedStayZeroed]_vars

----------------------------------------------------------------------------
(* Over-pruning *)

LocalTarget(name) == (Len(Scores(name)) * last_rate) \div RateDen

GlobalBound ==
    GlobalCallReturned => RemovedParams <= (total_param * last_rate) \div RateDen

\* C17 as stated: the local allocator removes at most floor(N * rate) blocks of a
\* layer, and exactly floor(N * rate) if and only if the layer's block scores
\* are pairwise distinct; the global allocator removes at most
\* floor(total_param * rate) parameters.
C17_ExactIffDistinct ==
    /\ LocalCallReturned =>
          \A name \in Layers(target_layers) :
              /\ RemovedBlocks(name) <= LocalTarget(name)
              /\ RemovedBlocks(name) = LocalTarget(name)
                    <=> PairwiseDistinct(Scores(name))
    /\ GlobalBound

\* C17 as amended: the local allocator removes at most floor(N * rate) blocks of
\* a layer, and exactly floor(N * rate) whenever the layer's block scores are
\* pairwise distinct (with ties it may still remove exactly that many); the
\* global allocator removes at most floor(total_param * rate) parameters.
C17_NeverOverPrunes ==
    /\ LocalCallReturned =>
          \A name \in Layers(target_layers) :
              /\ RemovedBlocks(name) <= LocalTarget(name)
              /\ PairwiseDistinct(Scores(name)) =>
                    RemovedBlocks(name) = LocalTarget(name)
    /\ GlobalBound

\* tied scores away from the threshold: the layer still loses exactly floor(N * rate)
C17_Witness ==
    /\ LocalCallReturned
    /\ error = "none"
    /\ ~PairwiseDistinct(Scores(1))
    /\ LocalTarget(1) = 2
    /\ RemovedBlocks(1) = 2

----------------------------------------------------------------------------
(* How phase 2 ends *)

\* C18: with a target sparsity below 1, phase 2 ends only through early stopping
\* (threshold reached, or patience checks without improvement), before the
\* max_epochs ceiling, and the test pass then runs exactly once.
C18_EndsThroughEarlyStopping ==
    model_sparsity < RateDen =>
        /\ pc # "failed"
        /\ pc \in {"test", "done"} =>
              /\ stop_reason \in {"threshold", "patience"}
              /\ current_epoch + 1 < max_epochs
        /\ pc = "test" => test_runs = 0
        /\ pc = "done" => test_runs = 1

----------------------------------------------------------------------------
(* The zero rate *)

\* C19: after a cut_weights call with rate 0 the call has returned and every
\* target layer has an all-ones mask, under the local and under the global
\* strategy, whatever the weights (tied scores and all-zero layers included).
C19_ZeroRateRemovesNothing ==
    (pc = "alloc" /\ last_rate = 0) => (error = "none" /\ AllOnes(target_layers))

\* rate 0 on a layer whose blocks all score 0, pooled with a block scoring higher
C19_Witness ==
    /\ pc = "alloc"
    /\ last_rate = 0
    /\ global_prune
    /\ total_param > PooledParams
    /\ AllOnes(target_layers)
    /\ \A k \in 1..Len(Scores(1)) : Scores(1)[k].num = 0
    /\ Scores(2)[1].num > 0

====
